---- MODULE Spec2Model ----
(***************************************************************************)
(* pendo-cli: one process run of the command-line client.                  *)
(*                                                                         *)
(* The model follows one invocation from the command line to the exit      *)
(* code: argument parsing (cli.py), configuration resolution (config.py),  *)
(* the scoped client session and the five client operations                *)
(* (api/client.py), and the segment and query handlers (commands/).        *)
(* Python values (None, str, int, list, dict) are tagged records; a dict   *)
(* keeps its insertion order as a sequence of <<key, value>> pairs.        *)
(***************************************************************************)
EXTENDS Integers, Sequences, FiniteSets, TLC

VARIABLES
    entry,        \* how the run was started: "console", "module", "direct"
    env,          \* the process environment: variable name -> None | str
    pc,           \* position of the run
    commandLine,  \* the command line the operator typed
    args,         \* argparse.Namespace handed to the handler
    command,      \* which handler runs: "segment", "query", or ""
    now,          \* datetime.now(timezone.utc), as a day number
    config,       \* PendoConfig built by get_config, or NoConfig
    session,      \* PendoClient._session: "none", "open", "closed"
    nOpened,      \* aiohttp.ClientSession objects created
    nClosed,      \* sessions closed
    nRequests,    \* HTTP requests put on the wire
    nClientCalls, \* client operations invoked by the handler
    calledOp,     \* the client operation the handler invoked, "" if none
    request,      \* the request handed to the session, or NoRequest
    outcome,      \* what the round trip produced, or NoOutcome
    envelope,     \* the dict the client operation returned, or NoEnvelope
    escaped,      \* exception that left the client operation, "" if none
    log,          \* log records: <<level, message>>
    out,          \* lines printed to standard output
    result,       \* what execute() did: "none", "True", "False", "raised"
    raisedExc,    \* the exception execute() raised: [name, msg], or NoExc
    exitCode      \* process exit status, once pc = "exited"

vars == <<entry, env, pc, commandLine, args, command, now, config, session, nOpened,
          nClosed, nRequests, nClientCalls, calledOp, request, outcome, envelope,
          escaped, log, out, result, raisedExc, exitCode>>

----------------------------------------------------------------------------
(* Python values *)

None == [t |-> "null"]
Absent == [t |-> "absent"]          \* an attribute the Namespace does not have
JStr(s) == [t |-> "str", s |-> s]
JNum(n) == [t |-> "num", n |-> n]
JList(l) == [t |-> "list", items |-> l]
JObj(pairs) == [t |-> "obj", pairs |-> pairs]
EmptyDict == JObj(<<>>)
EmptyList == JList(<<>>)

\* bool(v)
Truthy(v) ==
    CASE v.t = "null" -> FALSE
      [] v.t = "absent" -> FALSE
      [] v.t = "str" -> v.s # ""
      [] v.t = "num" -> v.n # 0
      [] v.t = "list" -> Len(v.items) > 0
      [] v.t = "obj" -> Len(v.pairs) > 0

\* key in d, for a dict d
HasKey(d, k) == \E i \in 1..Len(d.pairs) : d.pairs[i][1] = k

\* d.get(k, default), for a dict d
DictGet(d, k, default) ==
    IF HasKey(d, k)
    THEN d.pairs[CHOOSE i \in 1..Len(d.pairs) : d.pairs[i][1] = k][2]
    ELSE default

\* x.get(...) raises AttributeError unless x is a dict
HasGetMethod(v) == v.t = "obj"

RECURSIVE Repr(_)
RECURSIVE ReprItems(_)
RECURSIVE ReprPairs(_)
\* repr(v)
Repr(v) ==
    CASE v.t = "null" -> "None"
      [] v.t = "str" -> "'" \o v.s \o "'"
      [] v.t = "num" -> ToString(v.n)
      [] v.t = "list" -> "[" \o ReprItems(v.items) \o "]"
      [] v.t = "obj" -> "{" \o ReprPairs(v.pairs) \o "}"
ReprItems(l) ==
    IF Len(l) = 0 THEN ""
    ELSE IF Len(l) = 1 THEN Repr(l[1])
    ELSE Repr(l[1]) \o ", " \o ReprItems(Tail(l))
ReprPairs(l) ==
    IF Len(l) = 0 THEN ""
    ELSE LET one == "'" \o l[1][1] \o "': " \o Repr(l[1][2])
         IN IF Len(l) = 1 THEN one ELSE one \o ", " \o ReprPairs(Tail(l))

\* str(v)
Str(v) == IF v.t = "str" THEN v.s ELSE Repr(v)

RECURSIVE JsonDumps(_)
RECURSIVE DumpsItems(_)
RECURSIVE DumpsPairs(_)
\* the JSON text of a value, as the server writes it
JsonDumps(v) ==
    CASE v.t = "null" -> "null"
      [] v.t = "str" -> "\"" \o v.s \o "\""
      [] v.t = "num" -> ToString(v.n)
      [] v.t = "list" -> "[" \o DumpsItems(v.items) \o "]"
      [] v.t = "obj" -> "{" \o DumpsPairs(v.pairs) \o "}"
DumpsItems(l) ==
    IF Len(l) = 0 THEN ""
    ELSE IF Len(l) = 1 THEN JsonDumps(l[1])
    ELSE JsonDumps(l[1]) \o "," \o DumpsItems(Tail(l))
DumpsPairs(l) ==
    IF Len(l) = 0 THEN ""
    ELSE LET one == "\"" \o l[1][1] \o "\":" \o JsonDumps(l[1][2])
         IN IF Len(l) = 1 THEN one ELSE one \o "," \o DumpsPairs(Tail(l))

----------------------------------------------------------------------------
(* What the remote service can answer *)

MaxRows == 1

\* rows a response list may hold: a segment, an empty object, an aggregation
\* row, and a row that is no object
Rows ==
    { JObj(<< <<"id", JStr("1")>>, <<"name", JStr("A")>> >>),
      EmptyDict,
      JObj(<< <<"wau", JNum(5)>>, <<"totalEvents", JNum(7)>> >>),
      JNum(1) }

RowLists == UNION { [1..n -> Rows] : n \in 0..MaxRows }

\* the JSON values a response body may denote: the row lists, bare and wrapped
\* under `results`, a list of two segments, and values of other shapes
JsonValues ==
    { JList(l) : l \in RowLists }
    \cup { JObj(<< <<"results", JList(l)>> >>) : l \in RowLists }
    \cup { JList(<< JObj(<< <<"id", JStr("1")>>, <<"name", JStr("A")>> >>),
                    JObj(<< <<"name", JStr("B")>> >>) >>),
           None,
           EmptyDict,
           JStr("ok"),
           JObj(<< <<"id", JStr("9")>> >>),
           JObj(<< <<"error", JStr("x")>> >>),
           JObj(<< <<"text", JStr("t")>> >>),
           JObj(<< <<"message", JStr("denied")>> >>),
           JObj(<< <<"text", JStr("t")>>, <<"message", JStr("denied")>> >>) }

\* response bodies: every JSON text above, an empty body, and a body that is
\* no JSON
Texts == { JsonDumps(v) : v \in JsonValues } \cup { "", "oops" }

ContentTypes == { "application/json", "text/html" }

Statuses == { 200, 304, 404 }

\* json.loads on the texts of the model: the value a text denotes, or a
\* JSONDecodeError
LoadsTable ==
    [ text \in Texts |->
        IF \E v \in JsonValues : JsonDumps(v) = text
        THEN [ok |-> TRUE, val |-> CHOOSE v \in JsonValues : JsonDumps(v) = text]
        ELSE [ok |-> FALSE, val |-> None] ]

JsonLoads(text) == LoadsTable[text]

NoOutcome == [kind |-> "none", exc |-> "", status |-> 0, ctype |-> "", text |-> ""]

\* exceptions session.request(...) raises before a response exists
TransportExceptions ==
    { "ClientConnectorError",       \* connection refused
      "ClientConnectorDNSError",    \* name resolution failed
      "TimeoutError",               \* asyncio.TimeoutError, the total timeout
      "ClientResponseError" }       \* malformed HTTP response

Outcomes ==
    { [kind |-> "raise", exc |-> e, status |-> 0, ctype |-> "", text |-> ""] :
        e \in TransportExceptions }
    \cup { [kind |-> "bodyerror", exc |-> "ClientPayloadError", status |-> 200,
            ctype |-> "application/json", text |-> ""] }
    \cup [kind : {"response"}, exc : {""}, status : Statuses,
          ctype : ContentTypes, text : Texts]

\* the class each exception derives from, as the except clauses see it
ExcBase(e) ==
    CASE e \in { "ClientConnectorError", "ClientConnectorDNSError",
                 "ClientResponseError", "ClientPayloadError" } -> "ClientError"
      [] e = "CancelledError" -> "BaseException"
      [] e = "KeyboardInterrupt" -> "BaseException"
      [] e = "SystemExit" -> "BaseException"
      [] OTHER -> "Exception"

\* str(e)
ExcMessage(e) ==
    CASE e = "ClientConnectorError" -> "Cannot connect to host"
      [] e = "ClientConnectorDNSError" -> "Cannot resolve host"
      [] e = "ClientResponseError" -> "400, message='Bad HTTP message'"
      [] e = "ClientPayloadError" -> "Response payload is not completed"
      [] e = "RuntimeError" -> "Session is closed"
      [] OTHER -> ""

\* type(v).__name__
TypeName(v) ==
    CASE v.t = "null" -> "NoneType"
      [] v.t = "str" -> "str"
      [] v.t = "num" -> "int"
      [] v.t = "list" -> "list"
      [] v.t = "obj" -> "dict"

\* str(AttributeError) for v.get
NoGetMessage(v) == "'" \o TypeName(v) \o "' object has no attribute 'get'"

----------------------------------------------------------------------------
(* Configuration: config.py, api/models.py *)

EnvKeys ==
    { "PENDO_SUBSCRIPTION", "PENDO_BASE_URL", "PENDO_TIMEOUT", "PENDO_MAX_RETRIES",
      "PENDO_SUBSCRIPTION_ID", "PENDO_APP_ID", "PENDO_API_KEY",
      "PENDO_ROADMAPS_SUBSCRIPTION_ID", "PENDO_ROADMAPS_APP_ID",
      "PENDO_ROADMAPS_API_KEY",
      "PENDO_PORTFOLIOS_SUBSCRIPTION_ID", "PENDO_PORTFOLIOS_APP_ID",
      "PENDO_PORTFOLIOS_API_KEY" }

\* the environment with nothing set
BaseEnv == [k \in EnvKeys |-> None]

\* environments a run may start in (after load_dotenv has merged a .env file)
Envs ==
    { BaseEnv,
      ("PENDO_API_KEY" :> JStr("key-d")) @@ BaseEnv,
      ("PENDO_API_KEY" :> JStr("")) @@ BaseEnv,
      ("PENDO_SUBSCRIPTION" :> JStr(" Roadmaps ")
         @@ "PENDO_ROADMAPS_API_KEY" :> JStr("key-r")
         @@ "PENDO_ROADMAPS_SUBSCRIPTION_ID" :> JStr("sub-r")
         @@ "PENDO_MAX_RETRIES" :> JStr("5")) @@ BaseEnv,
      ("PENDO_SUBSCRIPTION" :> JStr("bogus")
         @@ "PENDO_API_KEY" :> JStr("key-d")) @@ BaseEnv,
      ("PENDO_TIMEOUT" :> JStr("soon")
         @@ "PENDO_API_KEY" :> JStr("key-d")) @@ BaseEnv,
      ("PENDO_SUBSCRIPTION" :> JStr("portfolios")
         @@ "PENDO_API_KEY" :> JStr("key-d")
         @@ "PENDO_PORTFOLIOS_APP_ID" :> JStr("app-p")) @@ BaseEnv,
      ("PENDO_SUBSCRIPTION_ID" :> JStr("sub-d")
         @@ "PENDO_APP_ID" :> JStr("app-d")
         @@ "PENDO_ROADMAPS_API_KEY" :> JStr("key-r")
         @@ "PENDO_PORTFOLIOS_SUBSCRIPTION_ID" :> JStr("sub-p")) @@ BaseEnv }

\* a variant that never reads the environment
GetenvFallbackOnly(e, key, default) == default

\* os.getenv(key, default)
Getenv(e, key, default) == IF e[key] = None THEN default ELSE e[key]

SUBSCRIPTION_NAMES == << "default", "roadmaps", "portfolios" >>

\* s.strip().lower(), on the names of the model
StripLower(s) ==
    CASE s = " Roadmaps " -> "roadmaps"
      [] OTHER -> s

\* int(s): the number a decimal string denotes, or a ValueError
IntOf(s) ==
    CASE s = "0" -> [ok |-> TRUE, val |-> 0]
      [] s = "3" -> [ok |-> TRUE, val |-> 3]
      [] s = "5" -> [ok |-> TRUE, val |-> 5]
      [] s = "30" -> [ok |-> TRUE, val |-> 30]
      [] OTHER -> [ok |-> FALSE, val |-> 0]

RECURSIVE JoinComma(_)
\* ", ".join(names)
JoinComma(names) ==
    IF Len(names) = 0 THEN ""
    ELSE IF Len(names) = 1 THEN names[1]
    ELSE names[1] \o ", " \o JoinComma(Tail(names))

NoConfig ==
    [subscription_id |-> "", app_id |-> "", base_url |-> "", timeout |-> 0,
     max_retries |-> 0, api_key |-> Absent]

\* PendoConfig(...)
PendoConfig(sid, app, url, timeout, retries, key) ==
    [subscription_id |-> sid, app_id |-> app, base_url |-> url,
     timeout |-> timeout, max_retries |-> retries, api_key |-> key]

\* a variant that lets the environment variable win over the argument
ResolveNameEnvFirst(subscription, e) ==
    StripLower(IF e["PENDO_SUBSCRIPTION"] # None
               THEN e["PENDO_SUBSCRIPTION"].s
               ELSE IF Truthy(subscription) THEN subscription.s
               ELSE "default")

\* the subscription name get_config resolves
ResolveName(subscription, e) ==
    StripLower(IF Truthy(subscription)
               THEN subscription.s
               ELSE Getenv(e, "PENDO_SUBSCRIPTION", JStr("default")).s)

IsSubscriptionName(name) ==
    \E i \in 1..Len(SUBSCRIPTION_NAMES) : SUBSCRIPTION_NAMES[i] = name

\* get_config(subscription): the PendoConfig, or the ValueError it raises
GetConfig(subscription, e) ==
    LET name == ResolveName(subscription, e)
        timeout == IntOf(Getenv(e, "PENDO_TIMEOUT", JStr("30")).s)
        retries == IntOf(Getenv(e, "PENDO_MAX_RETRIES", JStr("3")).s)
        url == Getenv(e, "PENDO_BASE_URL", JStr("https://app.pendo.io")).s
    IN  IF ~IsSubscriptionName(name)
        THEN [ok |-> FALSE,
              msg |-> "Unknown subscription " \o Repr(JStr(name))
                        \o ". Use one of: " \o JoinComma(SUBSCRIPTION_NAMES),
              cfg |-> NoConfig]
        ELSE IF ~timeout.ok \/ ~retries.ok
        THEN [ok |-> FALSE, msg |-> "invalid literal for int() with base 10",
              cfg |-> NoConfig]
        ELSE IF name = "default"
        THEN [ok |-> TRUE, msg |-> "",
              cfg |-> PendoConfig(
                  Getenv(e, "PENDO_SUBSCRIPTION_ID", JStr("4598576627318784")).s,
                  Getenv(e, "PENDO_APP_ID", JStr("-323232")).s,
                  url, timeout.val, retries.val, e["PENDO_API_KEY"])]
        ELSE IF name = "roadmaps"
        THEN [ok |-> TRUE, msg |-> "",
              cfg |-> PendoConfig(
                  Getenv(e, "PENDO_ROADMAPS_SUBSCRIPTION_ID",
                         JStr("6602363610660864")).s,
                  Getenv(e, "PENDO_ROADMAPS_APP_ID", JStr("5553517598146560")).s,
                  url, timeout.val, retries.val, e["PENDO_ROADMAPS_API_KEY"])]
        ELSE [ok |-> TRUE, msg |-> "",
              cfg |-> PendoConfig(
                  Getenv(e, "PENDO_PORTFOLIOS_SUBSCRIPTION_ID",
                         JStr("5878812817883136")).s,
                  Getenv(e, "PENDO_PORTFOLIOS_APP_ID", JStr("-323232")).s,
                  url, timeout.val, retries.val, e["PENDO_PORTFOLIOS_API_KEY"])]

----------------------------------------------------------------------------
(* The client: api/client.py *)

NoEnvelope == [data |-> Absent, errors |-> Absent]

\* a variant that passes `errors or None`: an empty list becomes None
EnvelopeErrorsOrNone(d, e) ==
    [data |-> d, errors |-> IF Len(e.items) = 0 THEN None ELSE e]

\* {"data": d, "errors": e}
Envelope(d, e) == [data |-> d, errors |-> e]

NoRequest == [op |-> "", method |-> "", path |-> "", json |-> Absent, key |-> Absent]

\* the five requests
ListSegmentsRequest(cfg) ==
    [op |-> "list_segments", method |-> "GET",
     path |-> "/api/v1/subscription/" \o cfg.subscription_id \o "/segment",
     json |-> Absent, key |-> Absent]

CreateSegmentRequest(cfg, segment_data) ==
    [op |-> "create_segment", method |-> "POST",
     path |-> "/api/v1/subscription/" \o cfg.subscription_id \o "/segment",
     json |-> segment_data, key |-> Absent]

UpdateSegmentRequest(cfg, segment_id, segment_data) ==
    [op |-> "update_segment", method |-> "PUT",
     path |-> "/api/v1/subscription/" \o cfg.subscription_id \o "/segment/"
                \o Str(segment_id),
     json |-> segment_data, key |-> Absent]

DeleteSegmentRequest(cfg, segment_id) ==
    [op |-> "delete_segment", method |-> "DELETE",
     path |-> "/api/v1/subscription/" \o cfg.subscription_id \o "/segment/"
                \o Str(segment_id),
     json |-> Absent, key |-> Absent]

AggregationRequest(cfg, body) ==
    [op |-> "post_aggregation", method |-> "POST", path |-> "/api/v1/aggregation",
     json |-> body, key |-> cfg.api_key]

\* response.json(): a content type other than JSON is a ContentTypeError, an
\* empty JSON body is None, anything else goes through json.loads
ResponseJson(oc) ==
    IF oc.ctype # "application/json" THEN [ok |-> FALSE, val |-> None]
    ELSE IF oc.text = "" THEN [ok |-> TRUE, val |-> None]
    ELSE JsonLoads(oc.text)

\* the try/except around response.json(): the parsed body, else the text
\* wrapped in a one-key dict, else an empty dict
ParseBody(oc) ==
    LET j == ResponseJson(oc)
    IN  IF j.ok THEN j.val
        ELSE IF oc.text # "" THEN JObj(<< <<"text", JStr(oc.text)>> >>)
        ELSE EmptyDict

\* if self._session is None: self._session = aiohttp.ClientSession()
EnsureSession(sess) == IF sess = "none" THEN "open" ELSE sess

\* the exception raised inside `async with self._session.request(...)`, "" if
\* none: a closed session refuses the request, the transport may fail, reading
\* the body may fail
RequestException(sess, oc) ==
    IF sess = "closed" THEN "RuntimeError"
    ELSE IF oc.kind \in {"raise", "bodyerror"} THEN oc.exc
    ELSE ""

\* a variant without the `except Exception` clause
CaughtOnlyClientError(e) == ExcBase(e) = "ClientError"

\* except aiohttp.ClientError ... except Exception
CaughtByClient(e) == ExcBase(e) \in {"ClientError", "Exception"}

\* what a client operation leaves behind: the envelope it returned (or the
\* exception that left it), the session, what it opened and sent, and what it
\* logged
ClientReturn(env_, exc, sess, opened, sent, logs) ==
    [envelope |-> env_, escaped |-> exc, session |-> sess, opened |-> opened,
     requests |-> sent, logs |-> logs]

\* the two except clauses of a client operation, for exception e with str(e) = msg
ClientExcept(e, msg, sess, opened, sent) ==
    IF ~CaughtByClient(e)
    THEN ClientReturn(NoEnvelope, e, sess, opened, sent, << >>)
    ELSE ClientReturn(
           Envelope(None, JList(<< JStr(msg) >>)), "", sess, opened, sent,
           << << "ERROR",
                 (IF ExcBase(e) = "ClientError" THEN "HTTP client error: "
                  ELSE "Unexpected error: ") \o msg >> >>)

\* a variant that sends the request again after a failure
RequestRetrying(sess, oc) ==
    LET s1 == EnsureSession(sess)
        opened == IF sess = "none" THEN 1 ELSE 0
        exc == RequestException(s1, oc)
    IN  IF exc = ""
        THEN ClientReturn(Envelope(ParseBody(oc), EmptyList), "", s1, opened, 1, << >>)
        ELSE ClientExcept(exc, ExcMessage(exc), s1, opened, 2)

\* PendoClient._request
Request(sess, oc) ==
    LET s1 == EnsureSession(sess)
        opened == IF sess = "none" THEN 1 ELSE 0
        sent == IF s1 = "open" THEN 1 ELSE 0
        exc == RequestException(s1, oc)
    IN  IF exc = ""
        THEN ClientReturn(Envelope(ParseBody(oc), EmptyList), "", s1, opened, sent, << >>)
        ELSE ClientExcept(exc, ExcMessage(exc), s1, opened, sent)

\* a variant that tests `api_key is None` instead of its truth value
MissingApiKeyNoneOnly(cfg) == cfg.api_key \in {None, Absent}

\* if not getattr(self.config, "api_key", None)
MissingApiKey(cfg) == ~Truthy(cfg.api_key)

\* the message post_aggregation takes from an error response
AggregationMessage(data) ==
    DictGet(data, "message", DictGet(data, "text", JStr(Str(data))))

\* if response.status >= 400
IsErrorStatus(status) == status >= 400

\* PendoClient.post_aggregation
PostAggregation(cfg, sess, oc) ==
    IF MissingApiKey(cfg)
    THEN ClientReturn(
           Envelope(None, JList(<< JStr("PENDO_API_KEY required for aggregation") >>)),
           "", sess, 0, 0, << >>)
    ELSE
    LET s1 == EnsureSession(sess)
        opened == IF sess = "none" THEN 1 ELSE 0
        sent == IF s1 = "open" THEN 1 ELSE 0
        exc == RequestException(s1, oc)
        data == ParseBody(oc)
    IN  IF exc # ""
        THEN ClientExcept(exc, ExcMessage(exc), s1, opened, sent)
        ELSE IF ~IsErrorStatus(oc.status)
        THEN ClientReturn(Envelope(data, EmptyList), "", s1, opened, sent, << >>)
        ELSE IF ~HasGetMethod(data)
        THEN ClientExcept("AttributeError", NoGetMessage(data), s1, opened, sent)
        ELSE ClientReturn(Envelope(None, JList(<< AggregationMessage(data) >>)),
                          "", s1, opened, sent, << >>)

\* the operation a request belongs to
ClientOp(cfg, sess, req, oc) ==
    IF req.op = "post_aggregation" THEN PostAggregation(cfg, sess, oc)
    ELSE Request(sess, oc)

----------------------------------------------------------------------------
(* The command line: cli.py parse_args *)

\* a command line with nothing on it; None is an option that was not given
BaseArgv ==
    [help |-> FALSE, subscription |-> None, command |-> "", sub |-> "",
     segment_id |-> None, name |-> None, description |-> None,
     last_days |-> None, event_name |-> None, from_date |-> None,
     to_date |-> None, country |-> None, output |-> None]

\* a Namespace with no attributes
BaseNamespace ==
    [command |-> Absent, subscription |-> Absent, segment_action |-> Absent,
     query_type |-> Absent, segment_id |-> Absent, name |-> Absent,
     description |-> Absent, last_days |-> Absent, event_name |-> Absent,
     from_date |-> Absent, to_date |-> Absent, country |-> Absent,
     segment |-> Absent, entity |-> Absent, group_by |-> Absent]

SegmentArgvs ==
    { [BaseArgv EXCEPT !.command = "segment", !.sub = a, !.subscription = sb] :
        a \in {"", "list"}, sb \in {None, JStr("roadmaps"), JStr("portfolios")} }
    \cup { [BaseArgv EXCEPT !.command = "segment", !.sub = "create",
                            !.name = n, !.description = d] :
             n \in {None, JStr("N")}, d \in {None, JStr("D")} }
    \cup { [BaseArgv EXCEPT !.command = "segment", !.sub = "update",
                            !.segment_id = JStr("s1"), !.name = n, !.description = d] :
             n \in {None, JStr(""), JStr("N")}, d \in {None, JStr(""), JStr("D")} }
    \cup { [BaseArgv EXCEPT !.command = "segment", !.sub = a, !.segment_id = i] :
             a \in {"update", "delete"}, i \in {None, JStr(""), JStr("s1")} }

QueryArgvs ==
    { [BaseArgv EXCEPT !.command = "query", !.sub = q] :
        q \in {"", "visitors", "accounts", "activity", "median"} }
    \cup { [BaseArgv EXCEPT !.command = "query", !.sub = "wau", !.last_days = d] :
             d \in {None, JNum(-3), JNum(0), JNum(30), JNum(500)} }
    \cup { [BaseArgv EXCEPT !.command = "query", !.sub = "events",
                            !.from_date = f, !.to_date = u, !.country = c] :
             f \in {None, JStr("2025-01-03"), JStr("soon")},
             u \in {None, JStr("2025-01-01"), JStr("2025-01-03"), JStr("never")},
             c \in {None, JStr("")} }

OtherArgvs ==
    { BaseArgv,
      [BaseArgv EXCEPT !.help = TRUE],
      [BaseArgv EXCEPT !.command = "report"],
      [BaseArgv EXCEPT !.command = "export"],
      [BaseArgv EXCEPT !.command = "export", !.output = JStr("segments.json")] }

Argvs == SegmentArgvs \cup QueryArgvs \cup OtherArgvs

\* default=...: the value of an option that was not given
OrDefault(v, default) == IF v = None THEN default ELSE v

\* parser.parse_args(): the Namespace, or the status argparse exits with
\* (0 after printing help, 2 after a usage error)
ParseArgs(argv) ==
    LET top == [BaseNamespace EXCEPT !.subscription = argv.subscription,
                                     !.command = None]
        exits(code) == [exits |-> TRUE, code |-> code, ns |-> BaseNamespace]
        parsed(ns) == [exits |-> FALSE, code |-> 0, ns |-> ns]
    IN  IF argv.help THEN exits(0)
        ELSE IF argv.subscription \notin {None, JStr("default"), JStr("roadmaps")}
        THEN exits(2)
        ELSE IF argv.command = "" THEN parsed(top)
        ELSE IF argv.command = "segment"
        THEN LET seg == [top EXCEPT !.command = JStr("segment")]
             IN  CASE argv.sub = "" -> parsed([seg EXCEPT !.segment_action = None])
                   [] argv.sub = "list" ->
                        parsed([seg EXCEPT !.segment_action = JStr("list")])
                   [] argv.sub = "create" ->
                        IF argv.name = None THEN exits(2)
                        ELSE parsed([seg EXCEPT
                               !.segment_action = JStr("create"),
                               !.name = argv.name,
                               !.description = OrDefault(argv.description, JStr(""))])
                   [] argv.sub = "update" ->
                        IF argv.segment_id = None THEN exits(2)
                        ELSE parsed([seg EXCEPT
                               !.segment_action = JStr("update"),
                               !.segment_id = argv.segment_id,
                               !.name = argv.name,
                               !.description = argv.description])
                   [] argv.sub = "delete" ->
                        IF argv.segment_id = None THEN exits(2)
                        ELSE parsed([seg EXCEPT
                               !.segment_action = JStr("delete"),
                               !.segment_id = argv.segment_id])
                   [] OTHER -> exits(2)
        ELSE IF argv.command = "query"
        THEN LET qry == [top EXCEPT !.command = JStr("query")]
             IN  CASE argv.sub = "" -> parsed([qry EXCEPT !.query_type = None])
                   [] argv.sub \in {"visitors", "accounts", "activity"} ->
                        parsed([qry EXCEPT !.query_type = JStr(argv.sub)])
                   [] argv.sub = "wau" ->
                        parsed([qry EXCEPT
                               !.query_type = JStr("wau"),
                               !.last_days = OrDefault(argv.last_days, JNum(7))])
                   [] argv.sub = "events" ->
                        parsed([qry EXCEPT
                               !.query_type = JStr("events"),
                               !.event_name = OrDefault(argv.event_name,
                                                JStr("core-card-service POST /io/card")),
                               !.from_date = OrDefault(argv.from_date, JStr("2025-01-01")),
                               !.to_date = OrDefault(argv.to_date, JStr("2025-12-31")),
                               !.country = OrDefault(argv.country, JStr("US"))])
                   [] OTHER -> exits(2)
        ELSE IF argv.command = "export"
        THEN IF argv.output = None THEN exits(2)
             ELSE parsed([top EXCEPT !.command = JStr("export")])
        ELSE exits(2)

\* Namespaces a caller builds by hand and passes to a handler, as the tests do:
\* attributes the caller left out are absent
DirectNamespaces ==
    { [BaseNamespace EXCEPT !.command = JStr("segment"), !.segment_action = a] :
        a \in {JStr("list"), JStr("create"), JStr("update"), JStr("delete"),
               JStr("archive")} }
    \cup { [BaseNamespace EXCEPT !.command = JStr("query"), !.query_type = q] :
             q \in {JStr("wau"), JStr("events")} }
    \cup { [BaseNamespace EXCEPT !.command = JStr("query"),
                                 !.query_type = JStr("visitors"),
                                 !.last_days = JNum(30), !.segment = s] :
             s \in {None, JStr("power")} }
    \cup { [BaseNamespace EXCEPT !.command = JStr("query"),
                                 !.query_type = JStr("activity"),
                                 !.entity = JStr("visitor"), !.group_by = g] :
             g \in {None, JStr("day")} }
    \cup { [BaseNamespace EXCEPT !.command = JStr("segment"),
                                 !.segment_action = JStr("update"),
                                 !.segment_id = JStr("s1"),
                                 !.description = JStr("D")],
           [BaseNamespace EXCEPT !.command = JStr("segment"),
                                 !.segment_action = JStr("list"),
                                 !.subscription = JStr("portfolios")],
           [BaseNamespace EXCEPT !.command = JStr("segment"),
                                 !.segment_action = JStr("list"),
                                 !.subscription = JStr("staging")] }

\* getattr(args, attr, default)
Getattr(ns, attr, default) == IF ns[attr] = Absent THEN default ELSE ns[attr]

\* hasattr(args, attr)
Hasattr(ns, attr) == ns[attr] # Absent

----------------------------------------------------------------------------
(* The handlers: commands/segment.py, commands/query.py *)

\* what a handler (or a part of it) did: returned True or False, or raised;
\* with the records it logged and the lines it printed
Returned(value, logs, prints) ==
    [result |-> IF value THEN "True" ELSE "False", exc |-> "",
     logs |-> logs, prints |-> prints]

Raised(e, logs, prints) ==
    [result |-> "raised", exc |-> e, logs |-> logs, prints |-> prints]

\* what a handler does before its first await: it finishes locally, or it
\* calls the client with a request
Finished(done) == [call |-> FALSE, req |-> NoRequest, done |-> done, logs |-> << >>]

Calls(req, logs) ==
    [call |-> TRUE, req |-> req, done |-> Returned(FALSE, << >>, << >>), logs |-> logs]

RECURSIVE PrintSegments(_, _)
\* for segment in segments: print(f"{segment_id}: {name}"), over a list
PrintSegments(items, printed) ==
    IF Len(items) = 0 THEN Returned(TRUE, << >>, printed)
    ELSE IF ~HasGetMethod(items[1]) THEN Raised("AttributeError", << >>, printed)
    ELSE PrintSegments(
           Tail(items),
           Append(printed,
                  Str(DictGet(items[1], "id", JStr("unknown"))) \o ": "
                    \o Str(DictGet(items[1], "name", JStr("unnamed")))))

\* the for loop of _list_segments over whatever `segments` is
IterateSegments(segments) ==
    CASE segments.t = "list" -> PrintSegments(segments.items, << >>)
      [] segments.t = "str" ->
           IF segments.s = "" THEN Returned(TRUE, << >>, << >>)
           ELSE Raised("AttributeError", << >>, << >>)
      [] segments.t = "obj" ->
           IF Len(segments.pairs) = 0 THEN Returned(TRUE, << >>, << >>)
           ELSE Raised("AttributeError", << >>, << >>)
      [] OTHER -> Raised("TypeError", << >>, << >>)

\* a variant that iterates the payload as it came, without unwrapping `results`
ListSegmentsDoneNoUnwrap(res) ==
    IF Truthy(res.errors)
    THEN Returned(FALSE,
           << << "ERROR", "Failed to list segments: " \o Repr(res.errors) >> >>, << >>)
    ELSE IterateSegments(res.data)

\* SegmentCommand._list_segments, after list_segments() returned
ListSegmentsDone(res) ==
    IF Truthy(res.errors)
    THEN Returned(FALSE,
           << << "ERROR", "Failed to list segments: " \o Repr(res.errors) >> >>, << >>)
    ELSE IterateSegments(IF res.data.t = "obj"
                         THEN DictGet(res.data, "results", EmptyList)
                         ELSE res.data)

\* SegmentCommand._create_segment, after create_segment() returned
CreateSegmentDone(res) ==
    IF Truthy(res.errors)
    THEN Returned(FALSE,
           << << "ERROR", "Failed to create segment: " \o Repr(res.errors) >> >>, << >>)
    ELSE IF ~HasGetMethod(res.data) THEN Raised("AttributeError", << >>, << >>)
    ELSE Returned(TRUE,
           << << "INFO", "Created segment: " \o Str(DictGet(res.data, "id", None)) >> >>,
           << >>)

\* SegmentCommand._update_segment, after update_segment() returned
UpdateSegmentDone(res, segment_id) ==
    IF Truthy(res.errors)
    THEN Returned(FALSE,
           << << "ERROR", "Failed to update segment: " \o Repr(res.errors) >> >>, << >>)
    ELSE Returned(TRUE, << << "INFO", "Updated segment: " \o Str(segment_id) >> >>, << >>)

\* SegmentCommand._delete_segment, after delete_segment() returned
DeleteSegmentDone(res, segment_id) ==
    IF Truthy(res.errors)
    THEN Returned(FALSE,
           << << "ERROR", "Failed to delete segment: " \o Repr(res.errors) >> >>, << >>)
    ELSE Returned(TRUE, << << "INFO", "Deleted segment: " \o Str(segment_id) >> >>, << >>)

\* a variant that sends every field, None for the ones not supplied
UpdatePayloadWithNulls(ns) ==
    JObj(<< <<"name", Getattr(ns, "name", None)>>,
            <<"description", Getattr(ns, "description", None)>> >>)

\* the payload _update_segment builds: only the fields with a truthy value
UpdatePayload(ns) ==
    JObj((IF Hasattr(ns, "name") /\ Truthy(ns.name)
          THEN << <<"name", ns.name>> >> ELSE << >>)
         \o (IF Hasattr(ns, "description") /\ Truthy(ns.description)
             THEN << <<"description", ns.description>> >> ELSE << >>))

\* the payload _create_segment builds
CreatePayload(ns) ==
    JObj(<< <<"name", Getattr(ns, "name", JStr("New Segment"))>>,
            <<"description", Getattr(ns, "description", JStr(""))>> >>)

\* a variant that tests `segment_id is None` instead of its truth value
MissingSegmentIdNoneOnly(segment_id) == segment_id = None

\* if not segment_id
MissingSegmentId(segment_id) == ~Truthy(segment_id)

\* SegmentCommand.execute, inside `async with`, up to the client call
SegmentStart(ns, cfg) ==
    LET action == Getattr(ns, "segment_action", None)
        segment_id == Getattr(ns, "segment_id", None)
    IN  CASE action = JStr("list") -> Calls(ListSegmentsRequest(cfg), << >>)
          [] action = JStr("create") ->
               Calls(CreateSegmentRequest(cfg, CreatePayload(ns)), << >>)
          [] action = JStr("update") ->
               IF MissingSegmentId(segment_id)
               THEN Finished(Returned(FALSE,
                      << << "ERROR", "segment_id is required for update" >> >>, << >>))
               ELSE Calls(UpdateSegmentRequest(cfg, segment_id, UpdatePayload(ns)), << >>)
          [] action = JStr("delete") ->
               IF MissingSegmentId(segment_id)
               THEN Finished(Returned(FALSE,
                      << << "ERROR", "segment_id is required for delete" >> >>, << >>))
               ELSE Calls(DeleteSegmentRequest(cfg, segment_id), << >>)
          [] OTHER ->
               Finished(Returned(FALSE,
                 << << "ERROR", "Unknown segment action: " \o Str(action) >> >>, << >>))

\* the rest of the segment handler, once the client returned `res`
SegmentDone(req, res, ns) ==
    CASE req.op = "list_segments" -> ListSegmentsDone(res)
      [] req.op = "create_segment" -> CreateSegmentDone(res)
      [] req.op = "update_segment" -> UpdateSegmentDone(res, ns.segment_id)
      [] req.op = "delete_segment" -> DeleteSegmentDone(res, ns.segment_id)

\* the aggregation body: {"response": ..., "request": {"requestId", "pipeline"}}
AggregationBody(request_id, pipeline) ==
    JObj(<< <<"response", JObj(<< <<"mimeType", JStr("application/json")>> >>)>>,
            <<"request", JObj(<< <<"requestId", JStr(request_id)>>,
                                 <<"pipeline", JList(pipeline)>> >>)>> >>)

\* {"source": {"trackEvents": {}, "timeSeries": time_series}}
SourceStage(time_series) ==
    JObj(<< <<"source", JObj(<< <<"trackEvents", EmptyDict>>,
                                <<"timeSeries", time_series>> >>)>> >>)

\* {"period": "dayRange", "first": first, "count": count}
TimeSeries(first, count) ==
    JObj(<< <<"period", JStr("dayRange")>>, <<"first", first>>,
            <<"count", JNum(count)>> >>)

Min(a, b) == IF a < b THEN a ELSE b
Max(a, b) == IF a > b THEN a ELSE b

\* a variant that only caps the window: last_days = min(last_days, 365)
ClampLastDaysUpperOnly(last_days) == Min(last_days, 365)

\* last_days = max(1, min(last_days, 365))
ClampLastDays(last_days) == Max(1, Min(last_days, 365))

\* the pipeline of _query_wau
WauPipeline(last_days) ==
    << SourceStage(TimeSeries(JStr("now()"), -last_days)),
       JObj(<< <<"identified", JStr("visitorId")>> >>),
       JObj(<< <<"select", JObj(<< <<"visitorId", JStr("visitorId")>> >>)>> >>),
       JObj(<< <<"group", JObj(<< <<"group", JList(<< JStr("visitorId") >>)>>,
                                  <<"fields", EmptyDict>> >>)>> >>),
       JObj(<< <<"group",
                 JObj(<< <<"group", EmptyList>>,
                         <<"fields",
                           JObj(<< <<"wau",
                                     JObj(<< <<"count", JStr("visitorId")>> >>)>> >>)>>
                      >>)>> >>) >>

\* QueryCommand._query_wau, up to the client call
QueryWauStart(ns, cfg) ==
    LET last_days == ClampLastDays(Getattr(ns, "last_days", JNum(7)).n)
    IN  Calls(AggregationRequest(cfg, AggregationBody("wau", WauPipeline(last_days))),
              << << "INFO", "Querying unique active visitors (last "
                              \o ToString(last_days) \o " days)..." >> >>)

\* results[0], for a truthy `results`: the first item of a list, else the
\* exception the subscript raises
FirstOf(results) ==
    CASE results.t = "list" -> [exc |-> "", val |-> results.items[1]]
      [] results.t = "str" -> [exc |-> "", val |-> JStr("c")]
      [] results.t = "obj" -> [exc |-> "KeyError", val |-> None]
      [] OTHER -> [exc |-> "TypeError", val |-> None]

\* a variant that treats an empty result as a failure
AggregationDoneEmptyFails(res, field, found, empty) ==
    IF Truthy(res.errors)
    THEN Returned(FALSE,
           [i \in 1..Len(res.errors.items) |-> << "ERROR", Str(res.errors.items[i]) >>],
           << >>)
    ELSE
    LET data == IF Truthy(res.data) THEN res.data ELSE EmptyDict
    IN  IF ~HasGetMethod(data) THEN Raised("AttributeError", << >>, << >>)
        ELSE
        LET results == DictGet(data, "results", EmptyList)
        IN  IF ~Truthy(results)
            THEN Returned(FALSE, << << "ERROR", empty >> >>, << >>)
            ELSE IF FirstOf(results).exc # ""
            THEN Raised(FirstOf(results).exc, << >>, << >>)
            ELSE IF ~HasGetMethod(FirstOf(results).val)
            THEN Raised("AttributeError", << >>, << >>)
            ELSE LET value == DictGet(FirstOf(results).val, field, JNum(0))
                 IN  Returned(TRUE, << << "INFO", found \o Str(value) >> >>,
                              << Str(value) >>)

\* the handling of the aggregation result shared by _query_wau and
\* _query_events: log the errors and fail, else print the field of the first
\* row, or 0 when there is none
AggregationDone(res, field, found, empty) ==
    IF Truthy(res.errors)
    THEN Returned(FALSE,
           [i \in 1..Len(res.errors.items) |-> << "ERROR", Str(res.errors.items[i]) >>],
           << >>)
    ELSE
    LET data == IF Truthy(res.data) THEN res.data ELSE EmptyDict
    IN  IF ~HasGetMethod(data) THEN Raised("AttributeError", << >>, << >>)
        ELSE
        LET results == DictGet(data, "results", EmptyList)
        IN  IF ~Truthy(results)
            THEN Returned(TRUE, << << "INFO", empty >> >>, << "0" >>)
            ELSE IF FirstOf(results).exc # ""
            THEN Raised(FirstOf(results).exc, << >>, << >>)
            ELSE IF ~HasGetMethod(FirstOf(results).val)
            THEN Raised("AttributeError", << >>, << >>)
            ELSE LET value == DictGet(FirstOf(results).val, field, JNum(0))
                 IN  Returned(TRUE, << << "INFO", found \o Str(value) >> >>,
                              << Str(value) >>)

\* QueryCommand._query_wau, after post_aggregation() returned
QueryWauDone(res, ns) ==
    AggregationDone(res, "wau",
        "Unique active visitors (last "
          \o ToString(ClampLastDays(Getattr(ns, "last_days", JNum(7)).n))
          \o " days): ",
        "No results")

\* datetime.strptime(s, "%Y-%m-%d"), as a day number: a ValueError for a
\* string that is no date
Strptime(s) ==
    CASE s = "2025-01-01" -> [ok |-> TRUE, day |-> 0]
      [] s = "2025-01-03" -> [ok |-> TRUE, day |-> 2]
      [] s = "2025-12-31" -> [ok |-> TRUE, day |-> 364]
      [] OTHER -> [ok |-> FALSE, day |-> 0]

\* the hours in a day
HoursPerDay == 24

\* the instants datetime.now(timezone.utc) may return, in hours since
\* 2025-01-01T00:00Z: noon of 2025-01-02, midnight and noon of 2025-01-03, and
\* noon of a day 400 days on
NowHours == { 36, 48, 60, 9612 }

\* (later - start).days, for an instant `later` in hours and a date `start` in
\* days: the whole days between them, rounded down
WholeDays(later, startDay) == (later - HoursPerDay * startDay) \div HoursPerDay

\* a variant that takes the relative shape whenever the span is positive, also
\* for a start date that is not in the past
EventWindowSpanOnly(from_date, to_date, today) ==
    LET start == Strptime(from_date.s)
        end == Strptime(to_date.s)
    IN  IF start.ok /\ end.ok
        THEN [use_relative |-> end.day - start.day > 0,
              days_ago |-> WholeDays(today, start.day),
              days_span |-> end.day - start.day]
        ELSE [use_relative |-> FALSE, days_ago |-> 365, days_span |-> 365]

\* the try/except of _query_events: use_relative, days_ago, days_span
EventWindow(from_date, to_date, today) ==
    LET start == Strptime(from_date.s)
        end == Strptime(to_date.s)
    IN  IF start.ok /\ end.ok
        THEN [use_relative |-> (WholeDays(today, start.day) > 0)
                                 /\ (end.day - start.day > 0),
              days_ago |-> WholeDays(today, start.day),
              days_span |-> end.day - start.day]
        ELSE [use_relative |-> FALSE, days_ago |-> 365, days_span |-> 365]

\* a variant whose relative window counts the days of the span
EventTimeSeriesSpanCount(from_date, to_date, today) ==
    LET w == EventWindow(from_date, to_date, today)
    IN  IF w.use_relative
        THEN TimeSeries(JStr("now()"), -w.days_span)
        ELSE TimeSeries(from_date, w.days_span)

\* the time_series of _query_events
EventTimeSeries(from_date, to_date, today) ==
    LET w == EventWindow(from_date, to_date, today)
    IN  IF w.use_relative
        THEN TimeSeries(JStr("now()"), -w.days_ago)
        ELSE TimeSeries(from_date, w.days_span)

\* the pipeline of _query_events
EventsPipeline(event_name, from_date, to_date, country, today) ==
    << SourceStage(EventTimeSeries(from_date, to_date, today)),
       JObj(<< <<"identified", JStr("visitorId")>> >>) >>
    \o (IF Truthy(country)
        THEN << JObj(<< <<"filter",
                          JStr("visitor.country==\"" \o Str(country) \o "\"")>> >>) >>
        ELSE << >>)
    \o << JObj(<< <<"filter", JStr("eventName==\"" \o Str(event_name) \o "\"")>> >>),
          JObj(<< <<"select", JObj(<< <<"numEvents", JStr("numEvents")>>,
                                      <<"visitorId", JStr("visitorId")>>,
                                      <<"day", JStr("day")>> >>)>> >>),
          JObj(<< <<"group",
                    JObj(<< <<"group", EmptyList>>,
                            <<"fields",
                              JObj(<< <<"totalEvents",
                                        JObj(<< <<"sum", JStr("numEvents")>> >>)>> >>)>>
                         >>)>> >>) >>

\* QueryCommand._query_events, up to the client call
QueryEventsStart(ns, cfg, today) ==
    LET event_name == Getattr(ns, "event_name", JStr("core-card-service POST /io/card"))
        from_date == Getattr(ns, "from_date", JStr("2025-01-01"))
        to_date == Getattr(ns, "to_date", JStr("2025-12-31"))
        country == Getattr(ns, "country", None)
    IN  Calls(AggregationRequest(cfg,
                AggregationBody("event-count",
                  EventsPipeline(event_name, from_date, to_date, country, today))),
              << << "INFO", "Querying events: event=" \o Repr(event_name)
                              \o ", from=" \o Str(from_date) \o ", to=" \o Str(to_date)
                              \o ", country=" \o Repr(country) >> >>)

\* QueryCommand._query_events, after post_aggregation() returned
QueryEventsDone(res) ==
    AggregationDone(res, "totalEvents", "Total events: ",
        "No results (event name or filters may not match any data)")

\* _query_visitors, _query_accounts, _query_activity: placeholders
QueryVisitors(ns) ==
    Returned(TRUE,
      << << "INFO", "Querying visitors from last "
                      \o Str(Getattr(ns, "last_days", JNum(30))) \o " days..." >> >>
      \o (IF Truthy(Getattr(ns, "segment", None))
          THEN << << "INFO", "Filtering by segment: " \o Str(ns.segment) >> >>
          ELSE << >>)
      \o << << "WARNING", "Visitor query not yet fully implemented" >> >>, << >>)

QueryAccounts(ns) ==
    Returned(TRUE,
      << << "INFO", "Querying accounts from last "
                      \o Str(Getattr(ns, "last_days", JNum(30))) \o " days..." >>,
         << "WARNING", "Account query not yet fully implemented" >> >>, << >>)

QueryActivity(ns) ==
    Returned(TRUE,
      << << "INFO", "Querying activity for entity: "
                      \o Str(Getattr(ns, "entity", JStr("visitor"))) >> >>
      \o (IF Truthy(Getattr(ns, "group_by", None))
          THEN << << "INFO", "Grouping by: " \o Str(ns.group_by) >> >>
          ELSE << >>)
      \o << << "WARNING", "Activity query not yet fully implemented" >> >>, << >>)

\* QueryCommand.execute, inside `async with`, up to the client call
QueryStart(ns, cfg, today) ==
    LET query_type == Getattr(ns, "query_type", None)
    IN  CASE query_type = JStr("visitors") -> Finished(QueryVisitors(ns))
          [] query_type = JStr("accounts") -> Finished(QueryAccounts(ns))
          [] query_type = JStr("activity") -> Finished(QueryActivity(ns))
          [] query_type = JStr("wau") -> QueryWauStart(ns, cfg)
          [] query_type = JStr("events") -> QueryEventsStart(ns, cfg, today)
          [] OTHER ->
               Finished(Returned(FALSE,
                 << << "ERROR", "Unknown query type: " \o Str(query_type) >> >>, << >>))

\* the rest of the query handler, once the client returned `res`
QueryDone(res, ns) ==
    IF Getattr(ns, "query_type", None) = JStr("wau")
    THEN QueryWauDone(res, ns)
    ELSE QueryEventsDone(res)

----------------------------------------------------------------------------
(* The run *)

NoExc == [name |-> "", msg |-> ""]

\* the outcome of a round trip cut short by an interrupt: asyncio cancels the
\* task, and CancelledError is raised at the await
Cancelled ==
    [kind |-> "raise", exc |-> "CancelledError", status |-> 0, ctype |-> "", text |-> ""]

\* PendoClient.__aenter__
AEnter(sess) == "open"

\* a variant that leaves the session as it is
AExitWithoutClose(sess) == sess

\* PendoClient.__aexit__: if self._session: await self._session.close()
AExit(sess) == IF sess = "none" THEN "none" ELSE "closed"

\* sessions __aexit__ closes: an open one
Closes(sess) == IF sess = "open" THEN 1 ELSE 0

\* a variant that maps everything but False to 0
ExitStatusUnlessFalse(value) == IF value = "False" THEN 1 ELSE 0

\* the exit status main() maps a handler's boolean to
ExitStatus(value) == IF value = "True" THEN 0 ELSE 1

Init ==
    /\ entry \in {"console", "module", "direct"}
    /\ env \in Envs
    /\ pc = "start"
    /\ commandLine = BaseArgv
    /\ args = BaseNamespace
    /\ command = ""
    /\ now = 0
    /\ config = NoConfig
    /\ session = "none"
    /\ nOpened = 0
    /\ nClosed = 0
    /\ nRequests = 0
    /\ nClientCalls = 0
    /\ calledOp = ""
    /\ request = NoRequest
    /\ outcome = NoOutcome
    /\ envelope = NoEnvelope
    /\ escaped = ""
    /\ log = << >>
    /\ out = << >>
    /\ result = "none"
    /\ raisedExc = NoExc
    /\ exitCode = 0

\* execute() left the `async with` block with `done`: __aexit__ closes the
\* session and the handler returns or re-raises
LeaveHandler(sess, done, logs) ==
    /\ session' = AExit(sess)
    /\ nClosed' = nClosed + Closes(sess)
    /\ result' = done.result
    /\ raisedExc' = IF done.result = "raised" THEN [name |-> done.exc, msg |-> ""]
                    ELSE NoExc
    /\ log' = log \o logs \o done.logs
    /\ out' = out \o done.prints
    /\ pc' = "handlerDone"

\* the rest of the handler once the client returned `res`
HandlerDone(cmd, req, res, ns) ==
    IF cmd = "segment" THEN SegmentDone(req, res, ns) ELSE QueryDone(res, ns)

\* SegmentCommand.execute / QueryCommand.execute, from the call to the first
\* await: get_config, __aenter__, the branch on the action, and either the
\* whole handler (when the branch never awaits the network) or the request
Execute(ns, cmd, today) ==
    LET gc == GetConfig(Getattr(ns, "subscription", None), env)
        st == IF cmd = "segment" THEN SegmentStart(ns, gc.cfg)
              ELSE QueryStart(ns, gc.cfg, today)
        local == PostAggregation(gc.cfg, AEnter(session), NoOutcome)
    IN  /\ args' = ns
        /\ command' = cmd
        /\ now' = today
        /\ UNCHANGED <<entry, env, commandLine, outcome, exitCode, nRequests, escaped>>
        /\ IF ~gc.ok
           THEN /\ result' = "raised"
                /\ raisedExc' = [name |-> "ValueError", msg |-> gc.msg]
                /\ pc' = "handlerDone"
                /\ UNCHANGED <<config, session, nOpened, nClosed, nClientCalls,
                               calledOp, request, envelope, log, out>>
           ELSE /\ config' = gc.cfg
                /\ nOpened' = nOpened + 1
                /\ IF ~st.call
                   THEN /\ LeaveHandler(AEnter(session), st.done, st.logs)
                        /\ UNCHANGED <<nClientCalls, calledOp, request, envelope>>
                   ELSE IF st.req.op = "post_aggregation" /\ MissingApiKey(gc.cfg)
                   THEN /\ nClientCalls' = nClientCalls + 1
                        /\ calledOp' = st.req.op
                        /\ request' = NoRequest
                        /\ envelope' = local.envelope
                        /\ LeaveHandler(local.session,
                                        HandlerDone(cmd, st.req, local.envelope, ns),
                                        st.logs \o local.logs)
                   ELSE /\ nClientCalls' = nClientCalls + 1
                        /\ calledOp' = st.req.op
                        /\ request' = st.req
                        /\ session' = AEnter(session)
                        /\ log' = log \o st.logs
                        /\ pc' = "await"
                        /\ UNCHANGED <<nClosed, envelope, out, result, raisedExc>>

\* datetime.now() is read by the events query only
Today(ns, cmd) ==
    IF cmd = "query" /\ Getattr(ns, "query_type", None) = JStr("events")
    THEN NowHours ELSE {0}

\* main(): parse_args(); argparse may end the process itself
ParseCommandLine ==
    /\ pc = "start"
    /\ entry \in {"console", "module"}
    /\ \E a \in Argvs :
         LET p == ParseArgs(a)
         IN  /\ commandLine' = a
             /\ IF p.exits
                THEN /\ pc' = "exited"
                     /\ exitCode' = p.code
                     /\ UNCHANGED args
                ELSE /\ pc' = "main"
                     /\ args' = p.ns
                     /\ UNCHANGED exitCode
    /\ UNCHANGED <<entry, env, command, now, config, session, nOpened, nClosed,
                   nRequests, nClientCalls, calledOp, request, outcome, envelope,
                   escaped, log, out, result, raisedExc>>

\* main(): no command and `export` end with status 1
MainWithoutHandler ==
    /\ pc = "main"
    /\ args.command \notin {JStr("segment"), JStr("query")}
    /\ log' = Append(log,
                << "ERROR",
                   IF ~Truthy(args.command)
                   THEN "No command specified. Use --help for usage information."
                   ELSE IF args.command = JStr("export")
                   THEN "Export commands not yet implemented"
                   ELSE "Unknown command: " \o Str(args.command) >>)
    /\ pc' = "exited"
    /\ exitCode' = 1
    /\ UNCHANGED <<entry, env, commandLine, args, command, now, config, session, nOpened,
                   nClosed, nRequests, nClientCalls, calledOp, request, outcome,
                   envelope, escaped, out, result, raisedExc>>

\* main(): route to SegmentCommand or QueryCommand and run execute()
Dispatch ==
    /\ pc = "main"
    /\ args.command \in {JStr("segment"), JStr("query")}
    /\ \E today \in Today(args, args.command.s) :
         Execute(args, args.command.s, today)

\* a caller that builds the Namespace itself and awaits execute()
DirectExecute ==
    /\ pc = "start"
    /\ entry = "direct"
    /\ \E ns \in DirectNamespaces :
         \E today \in Today(ns, ns.command.s) :
           Execute(ns, ns.command.s, today)

\* the round trip ends: the client operation returns its envelope and the
\* handler runs to its end
Receive ==
    /\ pc = "await"
    /\ \E oc \in Outcomes :
         LET r == ClientOp(config, session, request, oc)
         IN  /\ outcome' = oc
             /\ nOpened' = nOpened + r.opened
             /\ nRequests' = nRequests + r.requests
             /\ envelope' = r.envelope
             /\ escaped' = r.escaped
             /\ LeaveHandler(r.session,
                             IF r.escaped # ""
                             THEN Raised(r.escaped, << >>, << >>)
                             ELSE HandlerDone(command, request, r.envelope, args),
                             r.logs)
    /\ UNCHANGED <<entry, env, commandLine, args, command, now, config, nClientCalls,
                   calledOp, request, exitCode>>

\* Ctrl-C while the request is awaited: the task is cancelled, the handler
\* unwinds through __aexit__, asyncio.run raises KeyboardInterrupt; entry_point
\* returns 130, and under `python -m` the interpreter dies of SIGINT, which the
\* shell reports as 130
Interrupt ==
    /\ pc = "await"
    /\ entry \in {"console", "module"}
    /\ LET r == ClientOp(config, session, request, Cancelled)
       IN  /\ outcome' = Cancelled
           /\ nOpened' = nOpened + r.opened
           /\ nRequests' = nRequests + r.requests
           /\ envelope' = r.envelope
           /\ escaped' = r.escaped
           /\ session' = AExit(r.session)
           /\ nClosed' = nClosed + Closes(r.session)
           /\ result' = "raised"
           /\ raisedExc' = [name |-> "KeyboardInterrupt", msg |-> ""]
           /\ log' = log \o r.logs
           /\ out' = IF entry = "console" THEN Append(out, "\nInterrupted by user")
                     ELSE out
    /\ pc' = "exited"
    /\ exitCode' = 130
    /\ UNCHANGED <<entry, env, commandLine, args, command, now, config, nClientCalls,
                   calledOp, request>>

\* main() returns 0 if result else 1; an exception out of execute() is caught
\* by entry_point (status 1) or ends `python -m` with a traceback (status 1)
Exit ==
    /\ pc = "handlerDone"
    /\ entry \in {"console", "module"}
    /\ pc' = "exited"
    /\ exitCode' = ExitStatus(result)
    /\ out' = IF result = "raised" /\ entry = "console"
              THEN Append(out, "Unexpected error: " \o raisedExc.msg)
              ELSE out
    /\ UNCHANGED <<entry, env, commandLine, args, command, now, config, session, nOpened,
                   nClosed, nRequests, nClientCalls, calledOp, request, outcome,
                   envelope, escaped, log, result, raisedExc>>

Next ==
    \/ ParseCommandLine
    \/ MainWithoutHandler
    \/ Dispatch
    \/ DirectExecute
    \/ Receive
    \/ Interrupt
    \/ Exit

Spec == Init /\ [][Next]_vars

----------------------------------------------------------------------------
(* A caller that holds a PendoClient and drives it itself, as tests/test_client.py
   does: it may call an operation with no scope entered, enter and leave the
   scope, and call again afterwards *)

\* client operations one caller makes
MaxCalls == 2

\* scopes one caller enters
MaxScopes == 2

\* the configurations the caller builds the client with: with and without an
\* API key
ClientConfigs ==
    { PendoConfig("4598576627318784", "-323232", "https://app.pendo.io", 30, 3, k) :
        k \in {None, JStr("key-d")} }

\* the calls the caller makes
ClientRequests(cfg) ==
    { ListSegmentsRequest(cfg),
      CreateSegmentRequest(cfg,
        JObj(<< <<"name", JStr("Test Segment")>>,
                <<"description", JStr("Test description")>> >>)),
      UpdateSegmentRequest(cfg, JStr("segment123"),
        JObj(<< <<"name", JStr("Updated Segment")>> >>)),
      DeleteSegmentRequest(cfg, JStr("segment123")),
      AggregationRequest(cfg, AggregationBody("wau", WauPipeline(7))) }

\* what the round trip of such a call may produce: an answer, a rejection, a
\* refused connection
ClientOutcomes ==
    { [kind |-> "response", exc |-> "", status |-> 200,
       ctype |-> "application/json", text |-> "{}"],
      [kind |-> "response", exc |-> "", status |-> 404,
       ctype |-> "application/json", text |-> JsonDumps(JObj(<< <<"message", JStr("denied")>> >>))],
      [kind |-> "raise", exc |-> "ClientConnectorError", status |-> 0,
       ctype |-> "", text |-> ""] }

\* PendoClient(config)
ClientInit ==
    /\ entry = "client"
    /\ env = BaseEnv
    /\ pc = "client"
    /\ commandLine = BaseArgv
    /\ args = BaseNamespace
    /\ command = ""
    /\ now = 0
    /\ config \in ClientConfigs
    /\ session = "none"
    /\ nOpened = 0
    /\ nClosed = 0
    /\ nRequests = 0
    /\ nClientCalls = 0
    /\ calledOp = ""
    /\ request = NoRequest
    /\ outcome = NoOutcome
    /\ envelope = NoEnvelope
    /\ escaped = ""
    /\ log = << >>
    /\ out = << >>
    /\ result = "none"
    /\ raisedExc = NoExc
    /\ exitCode = 0

\* async with client, entered while no session is open: __aenter__ creates one
ClientEnter ==
    /\ pc = "client"
    /\ session # "open"
    /\ nOpened < MaxScopes
    /\ session' = AEnter(session)
    /\ nOpened' = nOpened + 1
    /\ UNCHANGED <<entry, env, pc, commandLine, args, command, now, config, nClosed,
                   nRequests, nClientCalls, calledOp, request, outcome, envelope,
                   escaped, log, out, result, raisedExc, exitCode>>

\* the end of the async with block: __aexit__
ClientExit ==
    /\ pc = "client"
    /\ session = "open"
    /\ session' = AExit(session)
    /\ nClosed' = nClosed + Closes(session)
    /\ UNCHANGED <<entry, env, pc, commandLine, args, command, now, config, nOpened,
                   nRequests, nClientCalls, calledOp, request, outcome, envelope,
                   escaped, log, out, result, raisedExc, exitCode>>

\* await client.<operation>(...), from the call to its return; a call that
\* never gets to the round trip (no API key, a closed session) has no outcome
ClientCall ==
    /\ pc = "client"
    /\ nClientCalls < MaxCalls
    /\ \E req \in ClientRequests(config), oc \in ClientOutcomes :
         LET r == ClientOp(config, session, req, oc)
             local == req.op = "post_aggregation" /\ MissingApiKey(config)
         IN  /\ nClientCalls' = nClientCalls + 1
             /\ calledOp' = req.op
             /\ request' = IF local THEN NoRequest ELSE req
             /\ outcome' = IF local \/ r.requests = 0 THEN NoOutcome ELSE oc
             /\ session' = r.session
             /\ nOpened' = nOpened + r.opened
             /\ nRequests' = nRequests + r.requests
             /\ envelope' = r.envelope
             /\ escaped' = r.escaped
             /\ log' = log \o r.logs
    /\ UNCHANGED <<entry, env, pc, commandLine, args, command, now, config, nClosed,
                   out, result, raisedExc, exitCode>>

ClientNext ==
    \/ ClientEnter
    \/ ClientExit
    \/ ClientCall

ClientSpec == ClientInit /\ [][ClientNext]_vars

----------------------------------------------------------------------------
(* Properties *)

\* execute() has returned or unwound
HandlerFinished == pc \in {"handlerDone", "exited"}

\* the run was interrupted
Interrupted == raisedExc.name = "KeyboardInterrupt"

\* C1: whatever the operation and whatever the round trip produced, the
\* envelope a client operation returns holds a list under `errors` (never
\* None), and a None `data` whenever that list is not empty.
C1_EnvelopeShape ==
    envelope # NoEnvelope =>
        /\ calledOp \in {"list_segments", "create_segment", "update_segment",
                         "delete_segment", "post_aggregation"}
        /\ envelope.errors.t = "list"
        /\ (Len(envelope.errors.items) > 0 => envelope.data = None)

\* an aggregation answered 404 with a message: errors is not empty, data is None
C1_Witness ==
    /\ calledOp = "post_aggregation"
    /\ outcome.kind = "response"
    /\ outcome.status = 404
    /\ envelope.errors = JList(<< JStr("denied") >>)
    /\ envelope.data = None

\* C2: a transport failure (connection refused, DNS failure, timeout,
\* malformed response, body cut short) never leaves the client operation as an
\* exception: the operation returns {data: None, errors: [str(e)]}.
C2_TransportFailureCaught ==
    (outcome.kind \in {"raise", "bodyerror"}
       /\ outcome.exc \in TransportExceptions \cup {"ClientPayloadError"}) =>
        /\ escaped = ""
        /\ envelope = Envelope(None, JList(<< JStr(ExcMessage(outcome.exc)) >>))

\* list_segments timed out: the envelope carries the (empty) message of the
\* timeout, and nothing escaped
C2_Witness ==
    /\ calledOp = "list_segments"
    /\ outcome.exc = "TimeoutError"
    /\ escaped = ""
    /\ envelope = Envelope(None, JList(<< JStr("") >>))
    /\ nRequests = 1

\* C3: with no API key in the configuration (None or empty), post_aggregation
\* returns data None and the one message naming the key, and attempts no
\* request: nothing is sent, nothing is awaited, and the only session is the
\* one the handler's scope opened.
C3_NoKeyNoRequest ==
    (calledOp = "post_aggregation" /\ ~Truthy(config.api_key)) =>
        /\ envelope = Envelope(None,
                        JList(<< JStr("PENDO_API_KEY required for aggregation") >>))
        /\ nRequests = 0
        /\ request = NoRequest
        /\ outcome = NoOutcome
        /\ nOpened = 1

\* a wau query with PENDO_API_KEY set to the empty string
C3_Witness ==
    /\ calledOp = "post_aggregation"
    /\ config.api_key = JStr("")
    /\ args.query_type = JStr("wau")
    /\ nRequests = 0
    /\ result = "False"

\* the message the fallback order names, for a response body: its message
\* field, else its text (the raw text of a body that is no JSON), else the
\* stringified body
FallbackMessage(oc) ==
    LET body == ParseBody(oc)
    IN  IF body.t = "obj" /\ HasKey(body, "message") THEN DictGet(body, "message", None)
        ELSE IF body.t = "obj" /\ HasKey(body, "text") THEN DictGet(body, "text", None)
        ELSE JStr(Str(body))

\* C4: when the aggregation endpoint answers with an error status (>= 400, the
\* statuses both statements of the rule agree on), post_aggregation returns
\* data None and errors = [m], m being the body's message field, else its raw
\* text, else the stringified body, for every body.
C4_ErrorMessageFallback ==
    (calledOp = "post_aggregation" /\ outcome.kind = "response"
       /\ outcome.status >= 400) =>
        envelope = Envelope(None, JList(<< FallbackMessage(outcome) >>))

\* C5: a segment update or delete whose segment id is absent or empty never
\* calls the client and never reports success; once the configuration is
\* resolved and the branch runs, it returns False.
C5_MissingIdNoClientCall ==
    (HandlerFinished /\ command = "segment"
       /\ args.segment_action \in {JStr("update"), JStr("delete")}
       /\ ~Truthy(Getattr(args, "segment_id", None))) =>
        /\ nClientCalls = 0
        /\ nRequests = 0
        /\ calledOp = ""
        /\ result # "True"
        /\ (config # NoConfig => result = "False")

\* `segment delete ""` from the command line: False, with no client call
C5_Witness ==
    /\ HandlerFinished
    /\ entry = "console"
    /\ args.segment_action = JStr("delete")
    /\ args.segment_id = JStr("")
    /\ result = "False"
    /\ nClientCalls = 0

\* C6: the handler's session is open while the handler awaits the client, and
\* closed once execute() has returned or unwound, on every path: success,
\* handled failure, an exception raised in the handler body, an interrupt.
C6_SessionScoped ==
    /\ (pc = "await" => session = "open" /\ nOpened = 1 /\ nClosed = 0)
    /\ (HandlerFinished /\ command # "" =>
          /\ session # "open"
          /\ nClosed = nOpened
          /\ (config # NoConfig => session = "closed" /\ nOpened = 1))

\* the handler body raised, and the session is closed all the same
C6_Witness ==
    /\ pc = "handlerDone"
    /\ result = "raised"
    /\ raisedExc.name = "AttributeError"
    /\ session = "closed"
    /\ nOpened = 1
    /\ nClosed = 1

\* C7: for every segment and query action, a response with an error status
\* (>= 400) makes the handler fail as a transport failure does: it does not
\* report success.
C7_RejectedRequestFails ==
    (HandlerFinished /\ outcome.kind = "response" /\ outcome.status >= 400) =>
        result # "True"

\* C8: a handler that receives an envelope with errors logs at error level and
\* returns False, and no run issues more than one request (nor more than one
\* client call), whatever max_retries is.
C8_NoRetry ==
    /\ nRequests <= 1
    /\ nClientCalls <= 1
    /\ (HandlerFinished /\ envelope # NoEnvelope /\ Truthy(envelope.errors) =>
          /\ result = "False"
          /\ Len(log) > 0
          /\ log[Len(log)][1] = "ERROR")

\* a failed request under max_retries = 5: one request, and failure
C8_Witness ==
    /\ HandlerFinished
    /\ config.max_retries = 5
    /\ Truthy(envelope.errors)
    /\ outcome.kind = "raise"
    /\ nRequests = 1
    /\ result = "False"

\* C9 as stated: the exit code is 0 exactly when the handler reported success,
\* 1 when it reported failure or the command is missing, unknown or `export`,
\* 130 when interrupted, and nothing else.
C9_ExitCodesAsStated ==
    pc = "exited" =>
        /\ exitCode \in {0, 1, 130}
        /\ (exitCode = 0 <=> result = "True")
        /\ (result = "False" => exitCode = 1)
        /\ (commandLine.command \in {"", "report", "export"} => exitCode = 1)
        /\ (exitCode = 130 <=> Interrupted)

\* C9, amended: the exit code is 0 exactly when the handler reported success or
\* argparse printed its help; 2 exactly when argparse rejected the command line
\* (no handler ran); 130 exactly when interrupted; 1 otherwise, which covers a
\* handler that reported failure or raised, a missing command and `export`.
C9_ExitCodes ==
    pc = "exited" =>
        /\ exitCode \in {0, 1, 2, 130}
        /\ (exitCode = 0 <=> (result = "True" \/ commandLine.help))
        /\ (exitCode = 2 =>
              /\ result = "none"
              /\ args = BaseNamespace
              /\ ~commandLine.help)
        /\ (commandLine.command = "report" /\ ~commandLine.help => exitCode = 2)
        /\ (exitCode = 130 <=> Interrupted)
        /\ (result = "False" \/ (result = "raised" /\ ~Interrupted) => exitCode = 1)
        /\ (args.command \in {None, JStr("export")} => exitCode = 1)

\* an unknown command: argparse exits with 2
C9_Witness ==
    /\ pc = "exited"
    /\ commandLine.command = "report"
    /\ exitCode = 2

\* C10: execute() returns a boolean for every outcome of the remote call; it
\* never raises.
C10_AlwaysReturnsBool ==
    (HandlerFinished /\ outcome \in Outcomes) => result \in {"True", "False"}

\* the update fields the operator supplied with a non-empty value
SuppliedFields(ns) ==
    { k \in {"name", "description"} : Truthy(Getattr(ns, k, None)) }

\* C11: the payload segment update sends holds exactly the keys among name and
\* description whose argument was supplied with a non-empty value, each once
\* and with the supplied value; a field not supplied is absent, not null.
C11_UpdatePayloadSupplied ==
    calledOp = "update_segment" =>
        /\ request.json.t = "obj"
        /\ { request.json.pairs[i][1] : i \in 1..Len(request.json.pairs) }
             = SuppliedFields(args)
        /\ Len(request.json.pairs) = Cardinality(SuppliedFields(args))
        /\ \A i \in 1..Len(request.json.pairs) :
             request.json.pairs[i][2] = args[request.json.pairs[i][1]]

\* an update with only a description: the payload holds the description alone
C11_Witness ==
    /\ calledOp = "update_segment"
    /\ entry = "console"
    /\ args.name = None
    /\ args.description = JStr("D")
    /\ request.json = JObj(<< <<"description", JStr("D")>> >>)
    /\ nRequests = 1

\* the pipeline of the aggregation body a request carries
RequestPipeline(req) ==
    DictGet(DictGet(req.json, "request", None), "pipeline", None).items

\* the timeSeries of the source stage of that pipeline
RequestTimeSeries(req) ==
    DictGet(DictGet(RequestPipeline(req)[1], "source", None), "timeSeries", None)

\* last_days brought into 1..365: the nearest bound when it lies outside
ClampedLastDays(ns) ==
    LET n == Getattr(ns, "last_days", JNum(7)).n
    IN  IF n > 365 THEN 365 ELSE IF n < 1 THEN 1 ELSE n

\* C12: the wau query clamps last_days to 1..365 before it builds the pipeline
\* (500 becomes 365, 0 and negatives become 1): the window it announces and the
\* count it sends, negated, are the clamped value.
C12_WauWindowClamped ==
    (command = "query" /\ args.query_type = JStr("wau") /\ config # NoConfig) =>
        /\ log[1] = << "INFO", "Querying unique active visitors (last "
                                 \o ToString(ClampedLastDays(args)) \o " days)..." >>
        /\ (request # NoRequest =>
              RequestTimeSeries(request)
                = JObj(<< <<"period", JStr("dayRange")>>,
                          <<"first", JStr("now()")>>,
                          <<"count", JNum(-ClampedLastDays(args))>> >>))

\* `query wau --last-days 500`: the request counts 365 days back
C12_Witness ==
    /\ calledOp = "post_aggregation"
    /\ args.query_type = JStr("wau")
    /\ args.last_days = JNum(500)
    /\ nRequests = 1
    /\ DictGet(RequestTimeSeries(request), "count", None) = JNum(-365)

\* the run is a wau or events query whose aggregation came back without errors
AggregationSucceeded ==
    /\ HandlerFinished
    /\ calledOp = "post_aggregation"
    /\ envelope # NoEnvelope
    /\ envelope.errors = EmptyList

\* the field each query reads from the first row
CountField == IF args.query_type = JStr("wau") THEN "wau" ELSE "totalEvents"

\* the rows of an aggregation payload: the list under `results`; none when the
\* payload is empty or has no such list
ResultRows(data) ==
    IF data.t = "obj" /\ HasKey(data, "results")
          /\ DictGet(data, "results", None).t = "list"
    THEN DictGet(data, "results", None).items
    ELSE << >>

\* the payload has the shape of an aggregation result: nothing, or an object
\* whose `results`, when present, is a list of objects
IsAggregationResult(data) ==
    \/ ~Truthy(data)
    \/ /\ data.t = "obj"
       /\ (HasKey(data, "results") => DictGet(data, "results", None).t = "list")
       /\ \A i \in 1..Len(ResultRows(data)) : ResultRows(data)[i].t = "obj"

\* C13: for wau and events alike, an aggregation result without errors and
\* without rows is a zero count: the handler prints 0, its last log record is
\* informational, and it returns True; with rows it prints the field (wau /
\* totalEvents) of the first row, 0 when that row lacks it.
C13_NoRowsIsZero ==
    (AggregationSucceeded /\ IsAggregationResult(envelope.data)) =>
        /\ result = "True"
        /\ log[Len(log)][1] = "INFO"
        /\ \A i \in 1..Len(log) : log[i][1] # "ERROR"
        /\ IF Len(ResultRows(envelope.data)) = 0
           THEN out = << "0" >>
           ELSE out = << Str(DictGet(ResultRows(envelope.data)[1], CountField, JNum(0))) >>

\* an events query answered with an empty result list
C13_Witness ==
    /\ AggregationSucceeded
    /\ args.query_type = JStr("events")
    /\ envelope.data = JObj(<< <<"results", EmptyList>> >>)
    /\ out = << "0" >>
    /\ result = "True"
    /\ log[Len(log)]
         = << "INFO", "No results (event name or filters may not match any data)" >>

\* the run is an events query whose request went out
EventsRequested ==
    /\ command = "query"
    /\ args.query_type = JStr("events")
    /\ calledOp = "post_aggregation"
    /\ request # NoRequest

\* the dates of the events query, as days since 2025-01-01
FromDay == Strptime(Getattr(args, "from_date", JStr("2025-01-01")).s)
ToDay == Strptime(Getattr(args, "to_date", JStr("2025-12-31")).s)

\* {"period": "dayRange", "first": "now()", "count": -n}
RelativeShape(n) ==
    JObj(<< <<"period", JStr("dayRange")>>, <<"first", JStr("now()")>>,
            <<"count", JNum(-n)>> >>)

\* {"period": "dayRange", "first": from_date, "count": the days to to_date}
ExplicitShape ==
    JObj(<< <<"period", JStr("dayRange")>>,
            <<"first", Getattr(args, "from_date", JStr("2025-01-01"))>>,
            <<"count", JNum(ToDay.day - FromDay.day)>> >>)

\* C14 as stated: with both dates parseable, the events query sends the
\* relative window {first: now(), count: -(days from from_date to now)} exactly
\* when from_date is strictly in the past and to_date minus from_date is
\* positive, and the explicit shape in every other case.
C14_EventWindowShapeAsStated ==
    (EventsRequested /\ FromDay.ok /\ ToDay.ok) =>
        RequestTimeSeries(request)
          = IF HoursPerDay * FromDay.day < now /\ FromDay.day < ToDay.day
            THEN RelativeShape((now - HoursPerDay * FromDay.day) \div HoursPerDay)
            ELSE ExplicitShape

\* C14, amended: the relative window is sent exactly when from_date lies at
\* least one whole day (24 hours) before now and to_date is after from_date,
\* its count being the whole days from from_date to now, negated; in every
\* other case, a from_date in the future or less than a day back included,
\* the explicit shape is sent.
C14_EventWindowShape ==
    (EventsRequested /\ FromDay.ok /\ ToDay.ok) =>
        RequestTimeSeries(request)
          = IF HoursPerDay * (FromDay.day + 1) <= now /\ FromDay.day < ToDay.day
            THEN RelativeShape((now - HoursPerDay * FromDay.day) \div HoursPerDay)
            ELSE ExplicitShape

\* from_date 2025-01-03 began twelve hours ago: the explicit shape
C14_Witness ==
    /\ EventsRequested
    /\ args.from_date = JStr("2025-01-03")
    /\ args.to_date = JStr("2025-12-31")
    /\ now = 60
    /\ RequestTimeSeries(request)
         = JObj(<< <<"period", JStr("dayRange")>>,
                   <<"first", JStr("2025-01-03")>>,
                   <<"count", JNum(362)>> >>)

\* C15: when from_date or to_date does not parse, the events query falls back
\* to a 365-day relative window, {first: now(), count: -365}, and does not use
\* the unparsed start date.
C15_ParseFailureRelativeWindow ==
    (EventsRequested /\ ~(FromDay.ok /\ ToDay.ok)) =>
        RequestTimeSeries(request) = RelativeShape(365)

\* the run is a segment list whose envelope came back without errors
ListSucceeded ==
    /\ HandlerFinished
    /\ calledOp = "list_segments"
    /\ envelope # NoEnvelope
    /\ envelope.errors = EmptyList

\* the segments of a list payload: the payload itself when it is a list, the
\* list under `results` when it is a wrapping object
SegmentsOf(data) ==
    IF data.t = "list" THEN data.items
    ELSE IF HasKey(data, "results") THEN DictGet(data, "results", None).items
    ELSE << >>

\* the payload is a list of segments, bare or wrapped
IsSegmentList(data) ==
    /\ \/ data.t = "list"
       \/ /\ data.t = "obj"
          /\ (HasKey(data, "results") => DictGet(data, "results", None).t = "list")
    /\ \A i \in 1..Len(SegmentsOf(data)) : SegmentsOf(data)[i].t = "obj"

\* the line printed for one segment
SegmentLine(segment) ==
    (IF HasKey(segment, "id") THEN Str(DictGet(segment, "id", None)) ELSE "unknown")
      \o ": "
      \o (IF HasKey(segment, "name") THEN Str(DictGet(segment, "name", None))
          ELSE "unnamed")

\* C16: segment list with an error-free envelope prints exactly one line
\* "<id>: <name>" per segment, in response order, taking the segments from
\* `results` when the payload is a wrapping object and writing unknown /
\* unnamed for a missing id / name, and returns True.
C16_ListPrintsSegments ==
    (ListSucceeded /\ IsSegmentList(envelope.data)) =>
        /\ result = "True"
        /\ out = [i \in 1..Len(SegmentsOf(envelope.data)) |->
                    SegmentLine(SegmentsOf(envelope.data)[i])]

\* a list of two segments, the second without an id: two lines, in order
C16_WitnessOrder ==
    /\ ListSucceeded
    /\ IsSegmentList(envelope.data)
    /\ Len(SegmentsOf(envelope.data)) = 2
    /\ out = << "1: A", "unknown: B" >>

\* the response {"results": [{"id": "1", "name": "A"}]} prints exactly `1: A`
C16_Witness ==
    /\ ListSucceeded
    /\ envelope.data
         = JObj(<< <<"results",
                     JList(<< JObj(<< <<"id", JStr("1")>>, <<"name", JStr("A")>> >>) >>)>>
                >>)
    /\ out = << "1: A" >>
    /\ result = "True"

\* a handler was entered: execute() called get_config
HandlerEntered == command # ""

\* the name the run asks for: the argument when one was given, else the
\* environment variable, else "default"; stripped and lowered
AskedName ==
    LET given == Getattr(args, "subscription", None)
    IN  StripLower(IF given.t = "str" /\ given.s # "" THEN given.s
                   ELSE IF env["PENDO_SUBSCRIPTION"] # None
                   THEN env["PENDO_SUBSCRIPTION"].s
                   ELSE "default")

\* the environment variables and fallbacks of each recognized name
OwnKeys(name) ==
    CASE name = "default" ->
           [sid |-> "PENDO_SUBSCRIPTION_ID", app |-> "PENDO_APP_ID",
            key |-> "PENDO_API_KEY",
            sidFallback |-> "4598576627318784", appFallback |-> "-323232"]
      [] name = "roadmaps" ->
           [sid |-> "PENDO_ROADMAPS_SUBSCRIPTION_ID", app |-> "PENDO_ROADMAPS_APP_ID",
            key |-> "PENDO_ROADMAPS_API_KEY",
            sidFallback |-> "6602363610660864", appFallback |-> "5553517598146560"]
      [] name = "portfolios" ->
           [sid |-> "PENDO_PORTFOLIOS_SUBSCRIPTION_ID",
            app |-> "PENDO_PORTFOLIOS_APP_ID",
            key |-> "PENDO_PORTFOLIOS_API_KEY",
            sidFallback |-> "5878812817883136", appFallback |-> "-323232"]

\* the value of an environment variable, or the fallback when it is unset
EnvOr(key, fallback) == IF env[key] = None THEN fallback ELSE env[key].s

\* the shared integer settings parse
SharedSettingsParse ==
    /\ IntOf(EnvOr("PENDO_TIMEOUT", "30")).ok
    /\ IntOf(EnvOr("PENDO_MAX_RETRIES", "3")).ok

\* C17: the name is the explicit argument, else PENDO_SUBSCRIPTION, else
\* "default". A name outside {default, roadmaps, portfolios} raises an error
\* that carries the allowed names, and that run builds no configuration,
\* constructs no client, opens no session and sends nothing; a recognized name
\* selects that name's subscription.
C17_SubscriptionResolved ==
    HandlerEntered =>
        IF AskedName \in {"default", "roadmaps", "portfolios"}
        THEN /\ SharedSettingsParse => config # NoConfig
             /\ config # NoConfig =>
                  config.subscription_id
                    = EnvOr(OwnKeys(AskedName).sid, OwnKeys(AskedName).sidFallback)
        ELSE /\ result = "raised"
             /\ raisedExc
                  = [name |-> "ValueError",
                     msg |-> "Unknown subscription '" \o AskedName
                               \o "'. Use one of: default, roadmaps, portfolios"]
             /\ config = NoConfig
             /\ session = "none"
             /\ nOpened = 0
             /\ nClientCalls = 0
             /\ nRequests = 0
             /\ request = NoRequest

\* PENDO_SUBSCRIPTION=bogus with no --subscription: the run ends in the error,
\* with no session and no request
C17_Witness ==
    /\ HandlerEntered
    /\ entry = "console"
    /\ args.subscription = None
    /\ env["PENDO_SUBSCRIPTION"] = JStr("bogus")
    /\ raisedExc.name = "ValueError"
    /\ nOpened = 0
    /\ nRequests = 0

\* --subscription roadmaps under PENDO_SUBSCRIPTION=bogus: the argument wins
C17_WitnessArgumentWins ==
    /\ HandlerEntered
    /\ args.subscription = JStr("roadmaps")
    /\ env["PENDO_SUBSCRIPTION"] = JStr("bogus")
    /\ config.subscription_id = "6602363610660864"

\* C18 as stated: for each recognized name, subscription id, app id and API
\* key come from that name's own environment variables, and each of the three
\* is a hard-coded literal when its variable is unset.
C18_OwnKeysWithFallbacksAsStated ==
    (HandlerEntered /\ config # NoConfig) =>
        /\ config.subscription_id
             = EnvOr(OwnKeys(AskedName).sid, OwnKeys(AskedName).sidFallback)
        /\ config.app_id = EnvOr(OwnKeys(AskedName).app, OwnKeys(AskedName).appFallback)
        /\ IF env[OwnKeys(AskedName).key] # None
           THEN config.api_key = env[OwnKeys(AskedName).key]
           ELSE config.api_key.t = "str"

\* C18, amended: for each recognized name, subscription id, app id and API key
\* come from that name's own environment variables, whatever the variables of
\* the other names hold; subscription id and app id are hard-coded literals
\* when unset, and the API key has no fallback: unset, it is None.
C18_OwnKeysWithFallbacks ==
    (HandlerEntered /\ config # NoConfig) =>
        /\ config.subscription_id
             = EnvOr(OwnKeys(AskedName).sid, OwnKeys(AskedName).sidFallback)
        /\ config.app_id = EnvOr(OwnKeys(AskedName).app, OwnKeys(AskedName).appFallback)
        /\ config.api_key = env[OwnKeys(AskedName).key]

\* portfolios with PENDO_API_KEY (the default subscription's key) set and its
\* own key unset: the app id is its own, the subscription id the fallback, and
\* the API key None
C18_Witness ==
    /\ HandlerEntered
    /\ AskedName = "portfolios"
    /\ env["PENDO_API_KEY"] = JStr("key-d")
    /\ config.subscription_id = "5878812817883136"
    /\ config.app_id = "app-p"
    /\ config.api_key = None

\* C19: in every client state with no open session, never opened or released
\* by a scope exit alike, the next operation that goes to the network (one not
\* turned away by the missing-key check) first opens a session, and so sends
\* its request.
C19_LazySessionWheneverNotOpen ==
    [][ (nClientCalls' = nClientCalls + 1 /\ session # "open" /\ request' # NoRequest)
          => (session' = "open" /\ nOpened' = nOpened + 1
                /\ nRequests' = nRequests + 1) ]_vars

\* the same for a client never opened: the part the code keeps
C19_LazySessionWhenNeverOpened ==
    [][ (nClientCalls' = nClientCalls + 1 /\ session = "none" /\ request' # NoRequest)
          => (session' = "open" /\ nOpened' = nOpened + 1
                /\ nRequests' = nRequests + 1) ]_vars

\* C20: segment create requires a name: a create request is sent only for a
\* name the operator gave, and carries that name; the description it carries
\* is the one given, the empty string when none was.
C20_CreateRequiresName ==
    calledOp = "create_segment" =>
        /\ Truthy(Getattr(args, "name", None))
        /\ DictGet(request.json, "name", None) = args.name
        /\ DictGet(request.json, "description", None)
             = Getattr(args, "description", JStr(""))

\* the events query of the run took the relative-window shape
RelativeWindowSent ==
    /\ EventsRequested
    /\ FromDay.ok
    /\ ToDay.ok
    /\ DictGet(RequestTimeSeries(request), "first", None) = JStr("now()")

\* the to_date values that lie after the run's from_date
LaterToDates ==
    { u \in {"2025-01-01", "2025-01-03", "2025-12-31"} :
        Strptime(u).day > FromDay.day }

\* the body the events query sends for the run's event name, from_date,
\* country and clock, were to_date `u`
EventsBodyFor(u) ==
    AggregationBody("event-count",
      EventsPipeline(Getattr(args, "event_name", JStr("core-card-service POST /io/card")),
                     Getattr(args, "from_date", JStr("2025-01-01")),
                     JStr(u),
                     Getattr(args, "country", None),
                     now))

\* C21: when the events query takes the relative-window shape, the body it
\* sends is the body it would send for any other to_date after from_date, the
\* event name, from_date, country and clock being the same; its window counts
\* the whole days from from_date to now, back from now().
C21_ToDateOnlyThroughSign ==
    RelativeWindowSent =>
        /\ Getattr(args, "to_date", JStr("2025-12-31")).s \in LaterToDates
        /\ \A u \in LaterToDates : request.json = EventsBodyFor(u)
        /\ RequestTimeSeries(request)
             = RelativeShape((now - HoursPerDay * FromDay.day) \div HoursPerDay)

\* from 2025-01-01 to 2025-01-03, asked 400 days on: the body is the one for
\* to_date 2025-12-31, and counts 400 days back
C21_Witness ==
    /\ RelativeWindowSent
    /\ args.from_date = JStr("2025-01-01")
    /\ args.to_date = JStr("2025-01-03")
    /\ now = 9612
    /\ request.json = EventsBodyFor("2025-12-31")
    /\ DictGet(RequestTimeSeries(request), "count", None) = JNum(-400)
    /\ nRequests = 1

====
